---- MODULE Spec2Model ----
(***************************************************************************)
(* A model of finance_tracker.py: the Account ledger (balance and          *)
(* transactions), the month filter, the ReportGenerator queries and the    *)
(* menu loop of main().                                                    *)
(*                                                                         *)
(* Amounts are Python floats.  A float is modelled as an integer number of *)
(* quanta that carries at most Precision significant bits; every           *)
(* arithmetic result is rounded to the nearest such value, ties to even,   *)
(* which is what binary64 does with 53 bits.  Text (month keys, typed      *)
(* input) is modelled as sequences of one-character strings.               *)
(***************************************************************************)
EXTENDS Integers, Sequences, FiniteSets, TLC

VARIABLES balance, transactions, strftimePads, call, stdout, running

vars == <<balance, transactions, strftimePads, call, stdout, running>>

(***************************************************************************)
(* Bounds of the model.                                                    *)
(***************************************************************************)
\* Significant bits of the modelled float (53 in binary64).
Precision == 3
\* Longest ledger explored.
MaxTx == 3

(***************************************************************************)
(* Float arithmetic.                                                       *)
(***************************************************************************)
Abs(x) == IF x < 0 THEN -x ELSE x

RECURSIVE Pow2(_)
Pow2(n) == IF n = 0 THEN 1 ELSE 2 * Pow2(n - 1)

\* The spacing of the floats around magnitude a: the least power of two q
\* with a < 2^Precision * q.
RECURSIVE Spacing(_, _)
Spacing(a, q) == IF a < Pow2(Precision) * q THEN q ELSE Spacing(a, 2 * q)

\* Round the exact value x to the nearest float, ties to the even mantissa.
fl(x) ==
    LET a == Abs(x)
        q == Spacing(a, 1)
        m == a \div q
        r == a % q
        up == \/ 2 * r > q
              \/ 2 * r = q /\ m % 2 = 1
        n == IF up THEN (m + 1) * q ELSE m * q
    IN IF x < 0 THEN -n ELSE n

\* float + float and float - float.
FloatAdd(a, b) == fl(a + b)
FloatSub(a, b) == fl(a - b)

(***************************************************************************)
(* Text.                                                                   *)
(***************************************************************************)
Digits == <<"0", "1", "2", "3", "4", "5", "6", "7", "8", "9">>

DigitChars == {Digits[i] : i \in 1..10}

DigitChar(d) == Digits[d + 1]

DigitValue(c) == CHOOSE d \in 0..9 : Digits[d + 1] = c

\* str.isdigit() on ASCII text: non-empty and every character a digit.
isdigit(s) == Len(s) > 0 /\ \A i \in 1..Len(s) : s[i] \in DigitChars

RECURSIVE Decimal(_)
Decimal(n) ==
    IF n < 10 THEN <<DigitChar(n)>>
    ELSE Decimal(n \div 10) \o <<DigitChar(n % 10)>>

RECURSIVE ZeroPad(_, _)
ZeroPad(s, w) == IF Len(s) >= w THEN s ELSE ZeroPad(<<"0">> \o s, w)

RECURSIVE DigitsValue(_)
DigitsValue(s) ==
    IF Len(s) = 0 THEN 0
    ELSE 10 * DigitsValue(SubSeq(s, 1, Len(s) - 1)) + DigitValue(s[Len(s)])

\* str.replace('-', '').
RECURSIVE RemoveDashes(_)
RemoveDashes(s) ==
    IF Len(s) = 0 THEN <<>>
    ELSE IF Head(s) = "-" THEN RemoveDashes(Tail(s))
    ELSE <<Head(s)>> \o RemoveDashes(Tail(s))

\* str.strip().
RECURSIVE strip(_)
strip(s) ==
    IF Len(s) = 0 THEN s
    ELSE IF Head(s) = " " THEN strip(Tail(s))
    ELSE IF s[Len(s)] = " " THEN strip(SubSeq(s, 1, Len(s) - 1))
    ELSE s

\* input(prompt).strip(), given the line the user typed.
input_prompt(typed) == strip(typed)

\* datetime.strftime("%m-%Y"): the month zero-padded to two digits, a dash
\* and the year.  The C library decides whether a year below 1000 is padded
\* to four digits (glibc does not pad it).
strftime_mY(date, pads) ==
    ZeroPad(Decimal(date.month), 2) \o <<"-">> \o
    (IF pads THEN ZeroPad(Decimal(date.year), 4) ELSE Decimal(date.year))

month_year_key(date) == strftime_mY(date, strftimePads)

(***************************************************************************)
(* Transactions.  A Transaction is a record of the dataclass fields plus   *)
(* its class (kind): "Income", "Expense" or the base class "Transaction".  *)
(***************************************************************************)
Food == <<"F", "o", "o", "d">>
Salary == <<"S", "a", "l", "a", "r", "y">>

\* Two months; the second lies in a year below 1000.
March2024 == [day |-> 1, month |-> 3, year |-> 2024]
April999 == [day |-> 15, month |-> 4, year |-> 999]

\* The transactions offered to Account.add: negative, zero and positive
\* amounts of either real class in one category and month, a positive
\* amount of either real class in a second category and in a second month,
\* and one transaction of the base class.
Transactions ==
    [kind : {"Income", "Expense"}, amount : {-5, 0, 2, 7}, category : {Food},
     date : {March2024}, description : {<<>>}]
    \cup
    [kind : {"Income", "Expense"}, amount : {6}, category : {Salary},
     date : {March2024}, description : {<<>>}]
    \cup
    [kind : {"Income", "Expense"}, amount : {2}, category : {Food},
     date : {April999}, description : {<<>>}]
    \cup
    [kind : {"Transaction"}, amount : {2}, category : {Food},
     date : {March2024}, description : {<<>>}]

Income(amount, category, date, desc) ==
    [kind |-> "Income", amount |-> amount, category |-> category,
     date |-> date, description |-> desc]

Expense(amount, category, date, desc) ==
    [kind |-> "Expense", amount |-> amount, category |-> category,
     date |-> date, description |-> desc]

\* tx.apply(account): the new balance, or the exception of the base class.
Income_apply(tx, bal) == FloatAdd(bal, tx.amount)

Expense_apply(tx, bal) == FloatSub(bal, tx.amount)

apply(tx, bal) ==
    CASE tx.kind = "Income" -> [raised |-> "", balance |-> Income_apply(tx, bal)]
      [] tx.kind = "Expense" -> [raised |-> "", balance |-> Expense_apply(tx, bal)]
      [] OTHER -> [raised |-> "NotImplementedError", balance |-> bal]

(***************************************************************************)
(* Account.                                                                *)
(***************************************************************************)
\* Mutants of add: the effect applied before the amount is checked; the
\* transaction inserted at the front; a zero amount let through.
add_applies_before_check(bal, txs, tx) ==
    LET a == apply(tx, bal)
    IN IF tx.amount <= 0
       THEN [raised |-> "ValueError", balance |-> a.balance, transactions |-> txs]
       ELSE IF a.raised # ""
       THEN [raised |-> a.raised, balance |-> a.balance, transactions |-> txs]
       ELSE [raised |-> "", balance |-> a.balance, transactions |-> Append(txs, tx)]

add_prepends(bal, txs, tx) ==
    IF tx.amount <= 0
    THEN [raised |-> "ValueError", balance |-> bal, transactions |-> txs]
    ELSE LET a == apply(tx, bal)
         IN IF a.raised # ""
            THEN [raised |-> a.raised, balance |-> a.balance, transactions |-> txs]
            ELSE [raised |-> "", balance |-> a.balance,
                  transactions |-> <<tx>> \o txs]

add_accepts_zero(bal, txs, tx) ==
    IF tx.amount < 0
    THEN [raised |-> "ValueError", balance |-> bal, transactions |-> txs]
    ELSE LET a == apply(tx, bal)
         IN IF a.raised # ""
            THEN [raised |-> a.raised, balance |-> a.balance, transactions |-> txs]
            ELSE [raised |-> "", balance |-> a.balance,
                  transactions |-> Append(txs, tx)]

\* Account.add(tx) on an account with balance bal and transactions txs.
add(bal, txs, tx) ==
    IF tx.amount <= 0
    THEN [raised |-> "ValueError", balance |-> bal, transactions |-> txs]
    ELSE LET a == apply(tx, bal)
         IN IF a.raised # ""
            THEN [raised |-> a.raised, balance |-> a.balance, transactions |-> txs]
            ELSE [raised |-> "", balance |-> a.balance,
                  transactions |-> Append(txs, tx)]

\* Mutant of by_month: only the month of the key is compared.
by_month_compares_month_only(txs, month_year) ==
    SelectSeq(txs, LAMBDA t :
        SubSeq(month_year_key(t.date), 1, 2) = SubSeq(month_year, 1, 2))

\* Account.by_month(month_year).
by_month(txs, month_year) ==
    SelectSeq(txs, LAMBDA t : month_year_key(t.date) = month_year)

(***************************************************************************)
(* Report and ReportGenerator.                                             *)
(***************************************************************************)
EmptyDict == [c \in {} |-> 0]

DictGet(d, k, default) == IF k \in DOMAIN d THEN d[k] ELSE default

DictSet(d, k, v) == [c \in DOMAIN d \cup {k} |-> IF c = k THEN v ELSE d[c]]

\* Report(): the dataclass defaults and __post_init__.
Report ==
    [total_income |-> 0, total_expense |-> 0, net |-> 0,
     income_by_cat |-> EmptyDict, expense_by_cat |-> EmptyDict]

\* Mutant of monthly_step: a category's entry is overwritten, not summed.
monthly_step_overwrites(report, tx) ==
    IF tx.kind = "Income"
    THEN [report EXCEPT
            !.total_income = FloatAdd(@, tx.amount),
            !.income_by_cat = DictSet(@, tx.category, tx.amount)]
    ELSE IF tx.kind = "Expense"
    THEN [report EXCEPT
            !.total_expense = FloatAdd(@, tx.amount),
            !.expense_by_cat = DictSet(@, tx.category, tx.amount)]
    ELSE report

\* One iteration of the loop of ReportGenerator.monthly.
monthly_step(report, tx) ==
    IF tx.kind = "Income"
    THEN [report EXCEPT
            !.total_income = FloatAdd(@, tx.amount),
            !.income_by_cat =
                DictSet(@, tx.category, FloatAdd(DictGet(@, tx.category, 0), tx.amount))]
    ELSE IF tx.kind = "Expense"
    THEN [report EXCEPT
            !.total_expense = FloatAdd(@, tx.amount),
            !.expense_by_cat =
                DictSet(@, tx.category, FloatAdd(DictGet(@, tx.category, 0), tx.amount))]
    ELSE report

RECURSIVE monthly_loop(_, _)
monthly_loop(report, txs) ==
    IF txs = <<>> THEN report
    ELSE monthly_loop(monthly_step(report, Head(txs)), Tail(txs))

\* ReportGenerator.monthly(account, month_year).
monthly(txs, month_year) ==
    LET r == monthly_loop(Report, by_month(txs, month_year))
    IN [r EXCEPT !.net = FloatSub(r.total_income, r.total_expense)]

\* sum(t.amount for t in txs if isinstance(t, kind)): the built-in sum,
\* adding from the left, starting at 0 (CPython up to 3.11; from 3.12 on
\* sum() compensates the rounding error of a float sum, which the loop of
\* monthly does not).
RECURSIVE sum_kind(_, _, _)
sum_kind(txs, kind, acc) ==
    IF txs = <<>> THEN acc
    ELSE sum_kind(Tail(txs), kind,
                  IF Head(txs).kind = kind THEN FloatAdd(acc, Head(txs).amount)
                  ELSE acc)

\* The three numbers print_all_time computes.
all_time(txs) ==
    LET income == sum_kind(txs, "Income", 0)
        expense == sum_kind(txs, "Expense", 0)
    IN [total_income |-> income, total_expense |-> expense,
        net |-> FloatSub(income, expense)]

(***************************************************************************)
(* Printed output.  A printed line is a record of its fixed text, the text *)
(* interpolated into it (a month key or a category) and the number that is *)
(* formatted into it.                                                      *)
(***************************************************************************)
Line(text, arg, amount) == [text |-> text, arg |-> arg, amount |-> amount]

\* The order of characters, for sorted(): their code points.
Alphabet == <<" ", "-", "/", "0", "1", "2", "3", "4", "5", "6", "7", "8", "9",
              "F", "S", "a", "d", "l", "o", "r", "x", "y">>

CharRank(c) == CHOOSE i \in 1..Len(Alphabet) : Alphabet[i] = c

RECURSIVE LexLess(_, _)
LexLess(a, b) ==
    IF Len(b) = 0 THEN FALSE
    ELSE IF Len(a) = 0 THEN TRUE
    ELSE IF Head(a) = Head(b) THEN LexLess(Tail(a), Tail(b))
    ELSE CharRank(Head(a)) < CharRank(Head(b))

\* sorted(d.items()) of a dict keyed by text, one line per item.
RECURSIVE sorted_items(_, _)
sorted_items(d, keys) ==
    IF keys = {} THEN <<>>
    ELSE LET k == CHOOSE x \in keys : \A y \in keys \ {x} : LexLess(x, y)
         IN <<Line("  cat: amt", k, d[k])>> \o sorted_items(d, keys \ {k})

category_lines(d) ==
    IF DOMAIN d # {} THEN sorted_items(d, DOMAIN d)
    ELSE <<Line("  None", <<>>, 0)>>

\* ReportGenerator.print_monthly(account, month_year): the lines printed.
print_monthly(bal, txs, month_year) ==
    LET r == monthly(txs, month_year)
    IN <<Line("===== Monthly Report =====", month_year, 0),
         Line("Total Income :", <<>>, r.total_income),
         Line("Total Expense:", <<>>, r.total_expense),
         Line("Net Savings  :", <<>>, r.net),
         Line("-- Income by Category --", <<>>, 0)>>
       \o category_lines(r.income_by_cat)
       \o <<Line("-- Expense by Category --", <<>>, 0)>>
       \o category_lines(r.expense_by_cat)
       \o <<Line("============================", <<>>, 0),
            Line("Current Balance: Rs.", <<>>, bal)>>

\* ReportGenerator.print_all_time(account): the lines printed.
print_all_time(txs) ==
    LET t == all_time(txs)
    IN <<Line("===== All-Time Summary =====", <<>>, 0),
         Line("Total Income :", <<>>, t.total_income),
         Line("Total Expense:", <<>>, t.total_expense),
         Line("Net Savings  :", <<>>, t.net),
         Line("============================", <<>>, 0)>>

(***************************************************************************)
(* The state: the Account of the session, the platform's strftime, the     *)
(* last call made on the account with its outcome, the lines printed by    *)
(* the last step, and whether the menu loop is still running.              *)
(***************************************************************************)
NoTx == <<>>

Call(op, tx, key, raised, value) ==
    [op |-> op, tx |-> tx, key |-> key, raised |-> raised, value |-> value]

\* Account(): balance 0.0 and, after __post_init__, an empty list.
Init ==
    /\ balance = 0
    /\ transactions = <<>>
    /\ strftimePads \in BOOLEAN
    /\ call = Call("init", NoTx, <<>>, "", <<>>)
    /\ stdout = <<>>
    /\ running = TRUE

\* Month-year keys asked of the queries.
Keys == {<<"0", "3", "-", "2", "0", "2", "4">>,
         <<"0", "4", "-", "0", "9", "9", "9">>,
         <<"0", "4", "-", "9", "9", "9">>}

(***************************************************************************)
(* Calls on the account and the report generator.                          *)
(***************************************************************************)
CallAdd(tx) ==
    LET r == add(balance, transactions, tx)
    IN /\ Len(r.transactions) <= MaxTx
       /\ balance' = r.balance
       /\ transactions' = r.transactions
       /\ call' = Call("add", tx, <<>>, r.raised, <<>>)
       /\ stdout' = <<>>
       /\ UNCHANGED <<strftimePads, running>>

\* Mutant of CallByMonth: the ledger's own list is filtered in place.
CallByMonthFiltersInPlace(key) ==
    /\ call' = Call("by_month", NoTx, key, "", by_month(transactions, key))
    /\ transactions' = by_month(transactions, key)
    /\ stdout' = <<>>
    /\ UNCHANGED <<balance, strftimePads, running>>

CallByMonth(key) ==
    /\ call' = Call("by_month", NoTx, key, "", by_month(transactions, key))
    /\ stdout' = <<>>
    /\ UNCHANGED <<balance, transactions, strftimePads, running>>

CallMonthly(key) ==
    /\ call' = Call("monthly", NoTx, key, "", monthly(transactions, key))
    /\ stdout' = <<>>
    /\ UNCHANGED <<balance, transactions, strftimePads, running>>

CallPrintMonthly(key) ==
    /\ call' = Call("print_monthly", NoTx, key, "", <<>>)
    /\ stdout' = print_monthly(balance, transactions, key)
    /\ UNCHANGED <<balance, transactions, strftimePads, running>>

CallPrintAllTime ==
    /\ call' = Call("print_all_time", NoTx, <<>>, "", all_time(transactions))
    /\ stdout' = print_all_time(transactions)
    /\ UNCHANGED <<balance, transactions, strftimePads, running>>

Next ==
    \/ \E tx \in Transactions : CallAdd(tx)
    \/ \E key \in Keys : CallByMonth(key)
    \/ \E key \in Keys : CallMonthly(key)
    \/ \E key \in Keys : CallPrintMonthly(key)
    \/ CallPrintAllTime

Spec == Init /\ [][Next]_vars

(***************************************************************************)
(* The command line: parsing what the user types.                          *)
(***************************************************************************)
\* float(text) for text of an optional sign and decimal digits, the only
\* numerals typed here; any other text typed here is not a number.
float(s) ==
    LET signed == Len(s) > 0 /\ s[1] \in {"-", "+"}
        body == IF signed THEN Tail(s) ELSE s
    IN IF isdigit(body)
       THEN [raised |-> "",
             value |-> fl(IF signed /\ s[1] = "-" THEN -DigitsValue(body)
                          ELSE DigitsValue(body))]
       ELSE [raised |-> "ValueError", value |-> 0]

\* read_amount(), given the lines typed at its prompts: the first line that
\* is a positive number ends the loop; the lines after it are not read.
RECURSIVE read_amount(_, _)
read_amount(lines, printed) ==
    IF lines = <<>>
    THEN [found |-> FALSE, amount |-> 0, printed |-> printed, rest |-> lines]
    ELSE LET f == float(input_prompt(Head(lines)))
         IN IF f.raised # ""
            THEN read_amount(Tail(lines),
                     Append(printed, Line("Please enter a valid number.", <<>>, 0)))
            ELSE IF f.value > 0
            THEN [found |-> TRUE, amount |-> f.value, printed |-> printed,
                  rest |-> Tail(lines)]
            ELSE read_amount(Tail(lines),
                     Append(printed, Line("Amount must be positive.", <<>>, 0)))

RECURSIVE SplitDash(_, _)
SplitDash(s, cur) ==
    IF s = <<>> THEN <<cur>>
    ELSE IF Head(s) = "-" THEN <<cur>> \o SplitDash(Tail(s), <<>>)
    ELSE SplitDash(Tail(s), Append(cur, Head(s)))

IsLeap(y) == y % 4 = 0 /\ (y % 100 # 0 \/ y % 400 = 0)

DaysInMonth(m, y) ==
    IF m = 2 THEN (IF IsLeap(y) THEN 29 ELSE 28)
    ELSE IF m \in {4, 6, 9, 11} THEN 30 ELSE 31

\* datetime.strptime(date_str, "%d-%m-%Y"): a day of one or two digits, a
\* month of one or two digits and a year of exactly four digits, separated
\* by dashes, that name a day of the calendar.
parse_date(date_str) ==
    LET f == SplitDash(date_str, <<>>)
        shaped == /\ Len(f) = 3
                  /\ isdigit(f[1]) /\ Len(f[1]) <= 2
                  /\ isdigit(f[2]) /\ Len(f[2]) <= 2
                  /\ isdigit(f[3]) /\ Len(f[3]) = 4
        d == DigitsValue(f[1])
        m == DigitsValue(f[2])
        y == DigitsValue(f[3])
    IN IF shaped /\ y >= 1 /\ m \in 1..12 /\ d >= 1 /\ d <= DaysInMonth(m, y)
       THEN [raised |-> "", date |-> [day |-> d, month |-> m, year |-> y]]
       ELSE [raised |-> "ValueError", date |-> <<>>]

\* The check of the typed month-year in main(); TRUE when main() goes on to
\* print the report.
month_year_accepted(my) ==
    ~(Len(my) # 7 \/ my[3] # "-" \/ ~isdigit(RemoveDashes(my)))

\* show_menu(balance): the lines printed before the choice is read.
show_menu(bal) ==
    <<Line("     Personal Finance Tracker     ", <<>>, 0),
      Line("Current Balance: Rs.", <<>>, bal),
      Line("1. Add Income 2. Add Expense 3. View Monthly Report 4. View All-time Summary 5. Exit",
           <<>>, 0)>>

(***************************************************************************)
(* What the user types at the prompts of main().                           *)
(***************************************************************************)
ChoiceLines == {<<"1">>, <<"2">>, <<" ", "3", " ">>, <<"4">>, <<"5">>, <<"9">>, <<>>}

AmountAttempts == {<<<<"x">>, <<"-", "5">>, <<"0">>, <<"7">>>>}

CategoryLines == {<<" ">> \o Food}

DateLines == {<<"0", "1", "-", "0", "3", "-", "2", "0", "2", "4">>,
              <<"1", "5", "-", "4", "-", "0", "9", "9", "9">>,
              <<"3", "1", "-", "0", "2", "-", "2", "0", "2", "4">>}

DescriptionLines == {<<>>}

MonthLines == {<<"0", "3", "-", "2", "0", "2", "4">>,
               <<" ", "0", "4", "-", "0", "9", "9", "9", " ">>,
               <<"0", "4", "-", "9", "9", "9">>,
               <<"3", "-", "2", "0", "2", "4">>,
               <<"0", "3", "/", "2", "0", "2", "4">>,
               <<"0", "x", "-", "2", "0", "2", "4">>,
               <<"1", "-", "-", "2", "0", "2", "4">>,
               <<"-", "-", "-", "-", "-", "-", "-">>}

(***************************************************************************)
(* main(): one action per branch of the menu loop, each a whole iteration. *)
(***************************************************************************)
MainInit ==
    /\ balance = 0
    /\ transactions = <<>>
    /\ strftimePads \in BOOLEAN
    /\ call = Call("init", NoTx, <<>>, "", <<>>)
    /\ stdout = <<Line("Welcome to Personal Finance Tracker!", <<>>, 0)>>
    /\ running = TRUE

\* The branches of choice "1" and "2": read the four inputs, parse the date,
\* construct the transaction and add it; a ValueError is printed.
MainAddTransaction(kind, header) ==
    \E amountLines \in AmountAttempts, catLine \in CategoryLines,
       dateLine \in DateLines, descLine \in DescriptionLines :
        LET ra == read_amount(amountLines, <<>>)
            pd == parse_date(input_prompt(dateLine))
            tx == IF kind = "Income"
                  THEN Income(ra.amount, input_prompt(catLine), pd.date,
                              input_prompt(descLine))
                  ELSE Expense(ra.amount, input_prompt(catLine), pd.date,
                               input_prompt(descLine))
            r == add(balance, transactions, tx)
            before == show_menu(balance) \o <<Line(header, <<>>, 0)>> \o ra.printed
        IN /\ ra.found /\ ra.rest = <<>>
           /\ IF pd.raised # ""
              THEN /\ stdout' = Append(before,
                                   Line("Error: Invalid date format. Use DD-MM-YYYY.", <<>>, 0))
                   /\ call' = Call("none", NoTx, <<>>, pd.raised, <<>>)
                   /\ UNCHANGED <<balance, transactions>>
              ELSE /\ Len(r.transactions) <= MaxTx
                   /\ balance' = r.balance
                   /\ transactions' = r.transactions
                   /\ call' = Call("add", tx, <<>>, r.raised, <<>>)
                   /\ stdout' = Append(before,
                                   IF r.raised = ""
                                   THEN Line("Transaction added successfully!", <<>>, 0)
                                   ELSE Line("Error: Amount must be positive.", <<>>, 0))
           /\ UNCHANGED <<strftimePads, running>>

MainAddIncome ==
    /\ running
    /\ \E choiceLine \in ChoiceLines : input_prompt(choiceLine) = <<"1">>
    /\ MainAddTransaction("Income", "Adding Income...")

MainAddExpense ==
    /\ running
    /\ \E choiceLine \in ChoiceLines : input_prompt(choiceLine) = <<"2">>
    /\ MainAddTransaction("Expense", "Adding Expense...")

MainMonthlyReport ==
    /\ running
    /\ \E choiceLine \in ChoiceLines : input_prompt(choiceLine) = <<"3">>
    /\ \E myLine \in MonthLines :
        LET my == input_prompt(myLine)
        IN IF month_year_accepted(my)
           THEN /\ call' = Call("print_monthly", NoTx, my, "", <<>>)
                /\ stdout' = show_menu(balance) \o print_monthly(balance, transactions, my)
           ELSE /\ call' = Call("none", NoTx, my, "", <<>>)
                /\ stdout' = Append(show_menu(balance),
                                    Line("Invalid format. Use MM-YYYY.", <<>>, 0))
    /\ UNCHANGED <<balance, transactions, strftimePads, running>>

MainAllTime ==
    /\ running
    /\ \E choiceLine \in ChoiceLines : input_prompt(choiceLine) = <<"4">>
    /\ call' = Call("print_all_time", NoTx, <<>>, "", all_time(transactions))
    /\ stdout' = show_menu(balance) \o print_all_time(transactions)
    /\ UNCHANGED <<balance, transactions, strftimePads, running>>

MainExit ==
    /\ running
    /\ \E choiceLine \in ChoiceLines : input_prompt(choiceLine) = <<"5">>
    /\ running' = FALSE
    /\ call' = Call("none", NoTx, <<>>, "", <<>>)
    /\ stdout' = Append(show_menu(balance), Line("Have a Great Month, Ayush!", <<>>, 0))
    /\ UNCHANGED <<balance, transactions, strftimePads>>

MainInvalidOption ==
    /\ running
    /\ \E choiceLine \in ChoiceLines :
        input_prompt(choiceLine) \notin {<<"1">>, <<"2">>, <<"3">>, <<"4">>, <<"5">>}
    /\ call' = Call("none", NoTx, <<>>, "", <<>>)
    /\ stdout' = Append(show_menu(balance), Line("Invalid option. Try again.", <<>>, 0))
    /\ UNCHANGED <<balance, transactions, strftimePads, running>>

MainNext ==
    \/ MainAddIncome
    \/ MainAddExpense
    \/ MainMonthlyReport
    \/ MainAllTime
    \/ MainExit
    \/ MainInvalidOption

MainSpec == MainInit /\ [][MainNext]_vars

(***************************************************************************)
(* Reference definitions used by the properties.                           *)
(***************************************************************************)
\* The float sum of the amounts of a sequence of transactions, in order.
RECURSIVE SumAmounts(_)
SumAmounts(txs) ==
    IF txs = <<>> THEN 0
    ELSE FloatAdd(SumAmounts(SubSeq(txs, 1, Len(txs) - 1)), txs[Len(txs)].amount)

\* The sum of the same amounts as real numbers, without rounding.
RECURSIVE ExactSum(_)
ExactSum(txs) ==
    IF txs = <<>> THEN 0 ELSE Head(txs).amount + ExactSum(Tail(txs))

OfKind(txs, kind) == SelectSeq(txs, LAMBDA t : t.kind = kind)

OfCategory(txs, category) == SelectSeq(txs, LAMBDA t : t.category = category)

\* The transactions the ledger files under a month-year key.
FiledUnder(txs, key) == SelectSeq(txs, LAMBDA t : month_year_key(t.date) = key)

CategoriesOf(txs) == {txs[i].category : i \in 1..Len(txs)}

IsPrefix(s, t) == Len(s) <= Len(t) /\ SubSeq(t, 1, Len(s)) = s

\* "MM-YYYY": two-digit month, dash, four-digit year.
FormatMMYYYY(date) ==
    ZeroPad(Decimal(date.month), 2) \o <<"-">> \o ZeroPad(Decimal(date.year), 4)

\* Text of exactly two digits, a dash, then exactly four digits.
HasMonthYearShape(s) ==
    /\ Len(s) = 7
    /\ s[3] = "-"
    /\ \A i \in {1, 2, 4, 5, 6, 7} : s[i] \in DigitChars

\* The distinct month-year keys of the ledger, in order of first occurrence.
RECURSIVE LedgerKeys(_, _)
LedgerKeys(txs, seen) ==
    IF txs = <<>> THEN seen
    ELSE LET k == month_year_key(Head(txs).date)
         IN LedgerKeys(Tail(txs),
                       IF \E i \in 1..Len(seen) : seen[i] = k THEN seen
                       ELSE Append(seen, k))

\* The float sum of a sequence of numbers, in order.
RECURSIVE SumSeq(_)
SumSeq(xs) ==
    IF xs = <<>> THEN 0
    ELSE FloatAdd(SumSeq(SubSeq(xs, 1, Len(xs) - 1)), xs[Len(xs)])

ReadOps == {"by_month", "monthly", "print_monthly", "print_all_time"}

(***************************************************************************)
(* C1.  After any sequence of add calls the balance equals the sum of the  *)
(* amounts of the Income transactions in the ledger minus the sum of the   *)
(* amounts of the Expense transactions in the ledger, whether the two sums *)
(* are taken as the program takes sums of floats or as real numbers.       *)
(***************************************************************************)
C1_BalanceIsIncomeMinusExpense ==
    \/ balance = FloatSub(SumAmounts(OfKind(transactions, "Income")),
                          SumAmounts(OfKind(transactions, "Expense")))
    \/ balance = ExactSum(OfKind(transactions, "Income"))
                 - ExactSum(OfKind(transactions, "Expense"))

(***************************************************************************)
(* C2.  Account.add of a transaction whose amount is <= 0 raises the       *)
(* invalid-amount error (ValueError) and leaves balance and transactions   *)
(* exactly as they were before the call.                                   *)
(***************************************************************************)
C2_RejectedAddChangesNothing ==
    [][(call'.op = "add" /\ call'.tx.amount <= 0)
        => /\ call'.raised = "ValueError"
           /\ balance' = balance
           /\ transactions' = transactions]_vars

C2_Witness ==
    /\ call.op = "add"
    /\ call.tx.amount <= 0
    /\ call.raised = "ValueError"
    /\ Len(transactions) >= 1
    /\ balance # 0

C4_AllTimeIsSumOfMonthly ==
    call.op = "print_all_time" =>
        LET keys == LedgerKeys(transactions, <<>>)
            reports == [i \in 1..Len(keys) |-> monthly(transactions, keys[i])]
        IN /\ call.value.total_income =
                SumSeq([i \in 1..Len(keys) |-> reports[i].total_income])
           /\ call.value.total_expense =
                SumSeq([i \in 1..Len(keys) |-> reports[i].total_expense])
           /\ call.value.net =
                SumSeq([i \in 1..Len(keys) |-> reports[i].net])

(***************************************************************************)
(* C5.  Account.by_month(key) returns exactly the transactions whose       *)
(* date, formatted as two-digit month, dash, four-digit year, equals key,  *)
(* in the order of their insertion.                                        *)
(***************************************************************************)
C5_ByMonthSelectsByMMYYYY ==
    call.op = "by_month" =>
        call.value =
            SelectSeq(transactions, LAMBDA t : FormatMMYYYY(t.date) = call.key)

(***************************************************************************)
(* C6.  A successful Account.add(tx) makes transactions the previous       *)
(* sequence with tx appended as its last element, and no step removes,     *)
(* reorders or replaces a transaction already in the ledger.               *)
(***************************************************************************)
C6_AppendOnly ==
    [][/\ (call'.op = "add" /\ call'.raised = "")
            => transactions' = Append(transactions, call'.tx)
       /\ IsPrefix(transactions, transactions')]_vars

C6_Witness ==
    /\ call.op = "add"
    /\ call.raised = ""
    /\ Len(transactions) = 3
    /\ transactions[3] = call.tx
    /\ transactions[1] # transactions[2]
    /\ transactions[2] # transactions[3]

(***************************************************************************)
(* C7.  by_month, monthly, print_monthly and print_all_time leave balance  *)
(* and transactions unchanged; the ledger changes only through add.        *)
(***************************************************************************)
C7_ReadsChangeNothing ==
    [][/\ call'.op \in ReadOps
            => (balance' = balance /\ transactions' = transactions)
       /\ (balance' # balance \/ transactions' # transactions)
            => call'.op = "add"]_vars

C7_Witness ==
    /\ call.op \in ReadOps
    /\ call.key = month_year_key(April999)
    /\ Len(transactions) = 2
    /\ transactions[1].date # transactions[2].date

(***************************************************************************)
(* C8.  For a key under which the ledger files no transaction, monthly     *)
(* does not fail and returns total_income = 0, total_expense = 0, net = 0  *)
(* and empty income_by_cat and expense_by_cat.                             *)
(***************************************************************************)
C8_NoMatchGivesEmptyReport ==
    (/\ call.op = "monthly"
     /\ \A i \in 1..Len(transactions) :
            month_year_key(transactions[i].date) # call.key)
        => /\ call.raised = ""
           /\ call.value.total_income = 0
           /\ call.value.total_expense = 0
           /\ call.value.net = 0
           /\ DOMAIN call.value.income_by_cat = {}
           /\ DOMAIN call.value.expense_by_cat = {}

C8_Witness ==
    /\ call.op = "monthly"
    /\ Len(transactions) = 2
    /\ \A i \in 1..Len(transactions) :
            month_year_key(transactions[i].date) # call.key
    /\ call.value.net = 0
    /\ DOMAIN call.value.income_by_cat = {}

(***************************************************************************)
(* C9.  In the monthly-report option of the menu loop the report query is  *)
(* invoked only for a typed month-year of exactly two digits, a dash and   *)
(* exactly four digits.                                                    *)
(***************************************************************************)
C9_ReportOnlyForMonthYearShape ==
    call.op = "print_monthly" => HasMonthYearShape(call.key)

(***************************************************************************)
(* C10.  Every transaction stored in Account.transactions has amount > 0,  *)
(* whatever positive, zero or negative amounts were offered to add.        *)
(***************************************************************************)
C10_StoredAmountsPositive ==
    \A i \in 1..Len(transactions) : transactions[i].amount > 0

C10_Witness ==
    /\ call.op = "add"
    /\ call.tx.amount = 0
    /\ call.raised # ""
    /\ Len(transactions) = 2

====
